---- MODULE Spec2Model ----
(***************************************************************************)
(* Model of serial_plotter.py: a SerialReader thread per session reads     *)
(* lines from a serial device and puts floats (or the SerialException that *)
(* ended it) on the controller's queue; the SerialPlotter window, on the   *)
(* single GUI thread, starts and stops readers, drains the queue on a      *)
(* timer and keeps the samples of the current session.                     *)
(***************************************************************************)
EXTENDS Integers, Sequences, FiniteSets, TLC

\* ------------------------------------------------------------------------
\* Bounds
\* ------------------------------------------------------------------------
MaxReaders == 2     \* SerialReader objects created in one run
MaxTime == 1        \* clock ticks in one run

None == 0
Readers == 1..MaxReaders

\* ------------------------------------------------------------------------
\* Text: a str / bytes value is a sequence of one-character strings.
\* ------------------------------------------------------------------------
Digits == <<"0", "1", "2", "3", "4", "5", "6", "7", "8", "9">>

IsDigit(c) == \E i \in 1..10 : Digits[i] = c

DigitVal(c) == (CHOOSE i \in 1..10 : Digits[i] = c) - 1

IsSpace(c) == c \in {" ", "\t", "\n", "\r"}

RECURSIVE LStrip(_)
LStrip(s) == IF s # <<>> /\ IsSpace(Head(s)) THEN LStrip(Tail(s)) ELSE s

RECURSIVE RStrip(_)
RStrip(s) ==
    IF s # <<>> /\ IsSpace(s[Len(s)]) THEN RStrip(SubSeq(s, 1, Len(s) - 1)) ELSE s

\* bytes.strip(): leading and trailing ASCII whitespace removed
Strip(s) == RStrip(LStrip(s))

AllDigits(s) == \A i \in 1..Len(s) : IsDigit(s[i])

RECURSIVE DigitsVal(_)
DigitsVal(s) ==
    IF s = <<>> THEN 0 ELSE 10 * DigitsVal(SubSeq(s, 1, Len(s) - 1)) + DigitVal(s[Len(s)])

Lower(c) ==
    CASE c = "N" -> "n" [] c = "A" -> "a" [] c = "I" -> "i" [] c = "F" -> "f"
      [] c = "T" -> "t" [] c = "Y" -> "y" [] OTHER -> c

LowerAll(s) == [i \in 1..Len(s) |-> Lower(s[i])]

\* position of the first "." in s, or 0
DotAt(s) == IF \E i \in 1..Len(s) : s[i] = "."
            THEN CHOOSE i \in 1..Len(s) : s[i] = "." /\ \A j \in 1..(i - 1) : s[j] # "."
            ELSE 0

\* ------------------------------------------------------------------------
\* float(): the result is a float value or ValueError.  A finite float is
\* kept in thousandths (3.14 is 3140); nan and the infinities are values of
\* their own class.  The grammar is the one of Python's float() without
\* exponents and digit-group underscores: [sign] digits [. digits] |
\* [sign] . digits | [sign] inf | [sign] infinity | [sign] nan, any case,
\* surrounded by optional whitespace.
\* ------------------------------------------------------------------------
Finite(m) == [cls |-> "finite", milli |-> m]
NaN == [cls |-> "nan", milli |-> 0]
Inf(sign) == [cls |-> "inf", milli |-> sign]
ValueError == [cls |-> "ValueError", milli |-> 0]

IsFinite(v) == v.cls = "finite"

\* the first three fractional digits, in thousandths
FracMilli(f) ==
    LET d(i) == IF i <= Len(f) THEN DigitVal(f[i]) ELSE 0
    IN  100 * d(1) + 10 * d(2) + d(3)

ParseUnsigned(s, sign) ==
    LET low == LowerAll(s)
        dot == DotAt(s)
        ip  == IF dot = 0 THEN s ELSE SubSeq(s, 1, dot - 1)
        fp  == IF dot = 0 THEN <<>> ELSE SubSeq(s, dot + 1, Len(s))
    IN  IF low = <<"n", "a", "n">> THEN NaN
        ELSE IF low = <<"i", "n", "f">>
                \/ low = <<"i", "n", "f", "i", "n", "i", "t", "y">> THEN Inf(sign)
        ELSE IF AllDigits(ip) /\ AllDigits(fp) /\ (ip # <<>> \/ fp # <<>>)
             THEN Finite(sign * (1000 * DigitsVal(ip) + FracMilli(fp)))
        ELSE ValueError

\* float(text)
ToFloat(text) ==
    LET s == Strip(text)
    IN  IF s = <<>> THEN ValueError
        ELSE IF Head(s) = "-" THEN ParseUnsigned(Tail(s), -1)
        ELSE IF Head(s) = "+" THEN ParseUnsigned(Tail(s), 1)
        ELSE ParseUnsigned(s, 1)

\* a < b on floats: false when either side is nan
FloatLt(a, b) ==
    /\ a.cls # "nan"
    /\ b.cls # "nan"
    /\ \/ a.cls = "finite" /\ b.cls = "finite" /\ a.milli < b.milli
       \/ a = Inf(-1) /\ b # Inf(-1)
       \/ b = Inf(1) /\ a # Inf(1)

\* a == b on floats: nan equals nothing
FloatEq(a, b) == a.cls # "nan" /\ a = b

\* min(list): the first item, replaced by each later item that is < it
RECURSIVE PyMin(_)
PyMin(s) ==
    IF Len(s) = 1 THEN s[1]
    ELSE LET m == PyMin(SubSeq(s, 1, Len(s) - 1))
         IN  IF FloatLt(s[Len(s)], m) THEN s[Len(s)] ELSE m

\* max(list): the first item, replaced by each later item that is > it
RECURSIVE PyMax(_)
PyMax(s) ==
    IF Len(s) = 1 THEN s[1]
    ELSE LET m == PyMax(SubSeq(s, 1, Len(s) - 1))
         IN  IF FloatLt(m, s[Len(s)]) THEN s[Len(s)] ELSE m

\* max(a, b) of two numbers
Max2(a, b) == IF b > a THEN b ELSE a

IntValue(n) == [cls |-> "int", val |-> n]
IntError == [cls |-> "ValueError", val |-> 0]

\* int(text): [sign] digits surrounded by optional whitespace, or ValueError
ToInt(text) ==
    LET s == Strip(text)
        signed == s # <<>> /\ Head(s) \in {"-", "+"}
        body == IF signed THEN Tail(s) ELSE s
    IN  IF body # <<>> /\ AllDigits(body)
        THEN IntValue((IF signed /\ Head(s) = "-" THEN -1 ELSE 1) * DigitsVal(body))
        ELSE IntError

\* ------------------------------------------------------------------------
\* Inputs
\* ------------------------------------------------------------------------
\* lines the serial device can deliver to readline()
Line_1_0 == <<"1", ".", "0", "\n">>
Line_2_0 == <<"2", ".", "0", "\n">>
Line_garbage == <<"g", "a", "r", "b", "a", "g", "e", "\n">>
Line_nan == <<"n", "a", "n", "\n">>

\* what the device sends in one run, line by line
Scripts == {<<Line_1_0, Line_garbage, Line_2_0>>, <<Line_nan>>}

\* texts of the port combo box: nothing selected, or a device name
NoPort == <<>>
PortTexts == {NoPort, <<"C", "O", "M", "1">>}

\* texts of the baud-rate line edit
BaudTexts == {<<"9", "6", "0", "0">>, <<"9", "6", "k">>, <<"9", ".", "6">>, <<>>}

\* ------------------------------------------------------------------------
\* State
\* ------------------------------------------------------------------------
VARIABLES
    now,            \* the last value time.time() returned
    \* SerialPlotter (GUI thread)
    ui_pc,          \* "idle", "join" (blocked in join(timeout=1.0)), "drain"
                    \* (back in timerEvent's loop after _stop_reading),
                    \* "closed" (close event accepted)
    joinCtx,        \* the caller of the _stop_reading that is blocked in join
    _reader,        \* self._reader: a reader, or None
    _data,          \* self._data
    _time,          \* self._time
    _start_time,    \* self._start_time
    _data_queue,    \* self._data_queue, the one queue made in __init__
    start_btn,      \* self._start_btn.isEnabled()
    stop_btn,       \* self._stop_btn.isEnabled()
    drawRequested,  \* self._canvas.draw_idle() has been called
    _ax,            \* self._ax: the x and y range of the axes
    _line,          \* self._line: the x and y data of the plotted line
    dialogs,        \* number of "Serial Error" message boxes shown
    \* SerialReader threads
    nCreated,       \* number of SerialReader objects constructed
    rpc,            \* position of each reader's thread in run()
    stopEv,         \* reader._stop_event.is_set()
    serialOpen,     \* reader._serial is open
    closes,         \* number of times reader._serial.close() was called
    \* history
    putLog,         \* every message put on the queue, in order
    latePuts,       \* for each reader, the number of messages it put with its
                    \* stop event already set; counted in SessionSpec only
    gotLog,         \* every message taken from the queue, in order
    script,         \* the lines the device sends in this run
    device,         \* the lines the device has not delivered yet
    _src,           \* for each entry of _data, the reader that put it
    tick,           \* what the timerEvent saw, while it is the last event handled
    lastOp          \* the last event the GUI thread handled

plotVars == <<_ax, _line>>

uiVars == <<ui_pc, joinCtx, _reader, _data, _time, _start_time, start_btn,
            stop_btn, drawRequested, dialogs, _src, tick, lastOp, plotVars>>
vars == <<now, ui_pc, joinCtx, _reader, _data, _time, _start_time, _data_queue,
          start_btn, stop_btn, drawRequested, dialogs, nCreated, rpc, stopEv,
          serialOpen, closes, putLog, gotLog, script, device, _src, tick, lastOp,
          _ax, _line, latePuts>>

Sample(v, r) == [kind |-> "sample", val |-> v, by |-> r]
Error(r) == [kind |-> "error", val |-> ValueError, by |-> r]

NoTick == [errs |-> 0, behind |-> 0, held |-> None]

\* a thread that has been started and has not returned from run()
Alive(r) == rpc[r] \in {"open", "flush", "loop", "read"}

\* the ranges matplotlib gives the axes of the empty plot of _setup_plot;
\* x in seconds, y in millionths
DefaultAxes == [xlim |-> <<0, 1>>, ylim |-> <<0, 1000000>>]

\* SerialPlotter.__init__, _create_controls and _setup_plot
Init ==
    /\ now = 0
    /\ ui_pc = "idle"
    /\ joinCtx = "none"
    /\ _reader = None
    /\ _data = <<>>
    /\ _time = <<>>
    /\ _start_time = 0
    /\ _data_queue = <<>>
    /\ start_btn = TRUE
    /\ stop_btn = FALSE
    /\ drawRequested = FALSE
    /\ _ax = DefaultAxes
    /\ _line = [x |-> <<>>, y |-> <<>>]
    /\ dialogs = 0
    /\ nCreated = 0
    /\ rpc = [r \in Readers |-> "new"]
    /\ stopEv = [r \in Readers |-> FALSE]
    /\ serialOpen = [r \in Readers |-> FALSE]
    /\ closes = [r \in Readers |-> 0]
    /\ putLog = <<>>
    /\ latePuts = [r \in Readers |-> 0]
    /\ gotLog = <<>>
    /\ script \in Scripts
    /\ device = script
    /\ _src = <<>>
    /\ tick = NoTick
    /\ lastOp = "init"

Running == ui_pc # "closed"

\* ------------------------------------------------------------------------
\* SerialReader.run, one action per blocking call or loop test
\* ------------------------------------------------------------------------
\* self.data_queue.put(m)
Put(m) ==
    /\ _data_queue' = Append(_data_queue, m)
    /\ putLog' = Append(putLog, m)

\* a run() that tries the open again after reporting its failure
run_open_retry(r) ==
    /\ Running
    /\ rpc[r] = "open"
    /\ \/ /\ serialOpen' = [serialOpen EXCEPT ![r] = TRUE]
          /\ rpc' = [rpc EXCEPT ![r] = "flush"]
          /\ UNCHANGED <<_data_queue, putLog>>
       \/ /\ Put(Error(r))
          /\ UNCHANGED <<rpc, serialOpen>>
    /\ UNCHANGED <<now, uiVars, nCreated, stopEv, closes, gotLog, script, device>>

\* Serial(port, baudrate, timeout): the port opens, or SerialException
run_open(r) ==
    /\ Running
    /\ rpc[r] = "open"
    /\ \/ /\ serialOpen' = [serialOpen EXCEPT ![r] = TRUE]
          /\ rpc' = [rpc EXCEPT ![r] = "flush"]
          /\ UNCHANGED <<_data_queue, putLog>>
       \/ /\ Put(Error(r))
          /\ rpc' = [rpc EXCEPT ![r] = "done"]
          /\ UNCHANGED serialOpen
    /\ UNCHANGED <<now, uiVars, nCreated, stopEv, closes, gotLog, script, device>>

\* self._serial.flushInput(), outside any try: a SerialException ends the
\* thread with the exception uncaught
run_flush(r) ==
    /\ Running
    /\ rpc[r] = "flush"
    /\ \/ rpc' = [rpc EXCEPT ![r] = "loop"]
       \/ rpc' = [rpc EXCEPT ![r] = "raised"]
    /\ UNCHANGED <<now, uiVars, _data_queue, nCreated, stopEv, serialOpen, closes,
                   putLog, gotLog, script, device>>

\* the end of run(): if self._serial and self._serial.is_open:
\* self._serial.close(); the thread ends.  It touches nothing another thread
\* reads, so it is taken in the step that leaves the loop.
Cleanup(r) ==
    /\ IF serialOpen[r]
       THEN /\ serialOpen' = [serialOpen EXCEPT ![r] = FALSE]
            /\ closes' = [closes EXCEPT ![r] = @ + 1]
       ELSE UNCHANGED <<serialOpen, closes>>
    /\ rpc' = [rpc EXCEPT ![r] = "done"]

\* a loop that does not test the stop event
run_loop_ignores_stop(r) ==
    /\ Running
    /\ rpc[r] = "loop"
    /\ rpc' = [rpc EXCEPT ![r] = "read"]
    /\ UNCHANGED <<now, uiVars, _data_queue, nCreated, stopEv, putLog, gotLog,
                   script, device, serialOpen, closes>>

\* while not self._stop_event.is_set(): enter the blocking readline(), or
\* leave the loop
run_loop(r) ==
    /\ Running
    /\ rpc[r] = "loop"
    /\ IF stopEv[r]
       THEN Cleanup(r)
       ELSE /\ rpc' = [rpc EXCEPT ![r] = "read"]
            /\ UNCHANGED <<serialOpen, closes>>
    /\ UNCHANGED <<now, uiVars, _data_queue, nCreated, stopEv, putLog, gotLog,
                   script, device>>

\* what one pass of the loop body does with the bytes readline() returned
LoopBody(r, line) ==
    IF line = <<>>
    THEN UNCHANGED <<_data_queue, putLog>>
    ELSE LET value == ToFloat(Strip(line))
         IN  IF value = ValueError
             THEN UNCHANGED <<_data_queue, putLog>>
             ELSE Put(Sample(value, r))

\* a loop that tests the stop event only after a timeout, not after a line
run_readline_again(r) ==
    /\ Running
    /\ rpc[r] = "read"
    /\ \E line \in {<<>>} \cup (IF device # <<>> THEN {Head(device)} ELSE {}) :
          /\ LoopBody(r, line)
          /\ device' = IF line = <<>> THEN device ELSE Tail(device)
          /\ rpc' = [rpc EXCEPT ![r] = IF line = <<>> THEN "loop" ELSE "read"]
    /\ UNCHANGED <<now, uiVars, nCreated, stopEv, serialOpen, closes, gotLog, script>>

\* self._serial.readline() returns a line, or b"" at the timeout
run_readline(r) ==
    /\ Running
    /\ rpc[r] = "read"
    /\ \E line \in {<<>>} \cup (IF device # <<>> THEN {Head(device)} ELSE {}) :
          /\ LoopBody(r, line)
          /\ device' = IF line = <<>> THEN device ELSE Tail(device)
    /\ rpc' = [rpc EXCEPT ![r] = "loop"]
    /\ UNCHANGED <<now, uiVars, nCreated, stopEv, serialOpen, closes, gotLog, script>>

\* a loop that goes on reading after it has reported a SerialException
run_read_fault_continue(r) ==
    /\ Running
    /\ rpc[r] = "read"
    /\ Put(Error(r))
    /\ rpc' = [rpc EXCEPT ![r] = "loop"]
    /\ UNCHANGED <<now, uiVars, nCreated, stopEv, gotLog, script, device,
                   serialOpen, closes>>

\* self._serial.readline() raises SerialException: the exception is put,
\* the loop is left
run_read_fault(r) ==
    /\ Running
    /\ rpc[r] = "read"
    /\ Put(Error(r))
    /\ Cleanup(r)
    /\ UNCHANGED <<now, uiVars, nCreated, stopEv, gotLog, script, device>>

\* ------------------------------------------------------------------------
\* SerialPlotter, on the GUI thread.  A handler runs to its end before the
\* next event is dispatched; the only place the GUI thread waits for another
\* thread is join(timeout=1.0) in _stop_reading.
\* ------------------------------------------------------------------------
\* time.time(): not before the last reading
Clock == {t \in {now, now + 1} : t <= MaxTime}

\* the part of the state _stop_reading works on; joining: blocked in join
Gui == [reader |-> _reader, start_btn |-> start_btn, stop_btn |-> stop_btn,
        stopEv |-> stopEv, joining |-> FALSE]

\* a _stop_reading that waits for the reader without calling its stop()
_stop_reading_unsignalled(g) ==
    IF g.reader # None
    THEN [g EXCEPT !.joining = TRUE]
    ELSE [g EXCEPT !.start_btn = TRUE, !.stop_btn = FALSE]

\* _stop_reading up to the join: with a reader, stop() it and wait in join;
\* without one, only the buttons are set
_stop_reading(g) ==
    IF g.reader # None
    THEN [g EXCEPT !.stopEv = [@ EXCEPT ![g.reader] = TRUE], !.joining = TRUE]
    ELSE [g EXCEPT !.start_btn = TRUE, !.stop_btn = FALSE]

\* where the GUI thread continues when _stop_reading returns to its caller
After(ctx) ==
    CASE ctx = "button" -> "idle"
      [] ctx = "timer" -> "drain"
      [] ctx = "close" -> "closed"

SetGui(g, ctx) ==
    /\ _reader' = g.reader
    /\ start_btn' = g.start_btn
    /\ stop_btn' = g.stop_btn
    /\ stopEv' = g.stopEv
    /\ ui_pc' = IF g.joining THEN "join" ELSE After(ctx)
    /\ joinCtx' = IF g.joining THEN ctx ELSE "none"

\* a _stop_reading that leaves the buttons as they are when it had a reader
AfterJoinButtonsKept ==
    /\ _reader' = None
    /\ ui_pc' = After(joinCtx)
    /\ joinCtx' = "none"
    /\ UNCHANGED <<now, _data, _time, _start_time, _data_queue, drawRequested,
                   dialogs, nCreated, rpc, stopEv, serialOpen, closes, putLog,
                   gotLog, script, device, _src, tick, lastOp, start_btn, stop_btn,
                   plotVars, latePuts>>

\* _stop_reading from the return of join to its end
AfterJoin ==
    /\ _reader' = None
    /\ start_btn' = TRUE
    /\ stop_btn' = FALSE
    /\ ui_pc' = After(joinCtx)
    /\ joinCtx' = "none"
    /\ UNCHANGED <<now, _data, _time, _start_time, _data_queue, drawRequested,
                   dialogs, nCreated, rpc, stopEv, serialOpen, closes, putLog,
                   gotLog, script, device, _src, tick, lastOp, plotVars, latePuts>>

\* join returns because the reader's thread has ended
join_finished ==
    /\ ui_pc = "join"
    /\ ~Alive(_reader)
    /\ AfterJoin

\* join returns because its timeout of 1.0 s expired with the thread alive
join_timeout ==
    /\ ui_pc = "join"
    /\ Alive(_reader)
    /\ AfterJoin

\* a start that leaves the Stop button as it is
StartReaderStopKept(t) ==
    /\ lastOp' = "start"
    /\ tick' = NoTick
    /\ nCreated' = nCreated + 1
    /\ _reader' = nCreated + 1
    /\ rpc' = [rpc EXCEPT ![nCreated + 1] = "open"]
    /\ start_btn' = FALSE
    /\ now' = t
    /\ _start_time' = t
    /\ _data' = <<>>
    /\ _time' = <<>>
    /\ _src' = <<>>
    /\ UNCHANGED stop_btn

\* the part of _start_reading after the configuration has been accepted
StartReader(t) ==
    /\ lastOp' = "start"
    /\ tick' = NoTick
    /\ nCreated' = nCreated + 1
    /\ _reader' = nCreated + 1
    /\ rpc' = [rpc EXCEPT ![nCreated + 1] = "open"]
    /\ start_btn' = FALSE
    /\ stop_btn' = TRUE
    /\ now' = t
    /\ _start_time' = t
    /\ _data' = <<>>
    /\ _time' = <<>>
    /\ _src' = <<>>

Rejected(op) ==
    /\ lastOp' = op
    /\ tick' = NoTick
    /\ UNCHANGED <<now, _reader, rpc, nCreated, start_btn, stop_btn,
                   _start_time, _data, _time, _src>>

\* a _start_reading that keeps the buffer and the time origin
_start_reading_no_reset(port, baudText, t) ==
    IF port = NoPort THEN Rejected("start_no_port")
    ELSE IF ToInt(baudText) = IntError THEN Rejected("start_bad_baud")
    ELSE /\ lastOp' = "start"
         /\ tick' = NoTick
         /\ nCreated' = nCreated + 1
         /\ _reader' = nCreated + 1
         /\ rpc' = [rpc EXCEPT ![nCreated + 1] = "open"]
         /\ start_btn' = FALSE
         /\ stop_btn' = TRUE
         /\ now' = t
         /\ UNCHANGED <<_start_time, _data, _time, _src>>

\* a _start_reading that leaves the Start button enabled
_start_reading_start_enabled(port, baudText, t) ==
    IF port = NoPort THEN Rejected("start_no_port")
    ELSE IF ToInt(baudText) = IntError THEN Rejected("start_bad_baud")
    ELSE /\ lastOp' = "start"
         /\ tick' = NoTick
         /\ nCreated' = nCreated + 1
         /\ _reader' = nCreated + 1
         /\ rpc' = [rpc EXCEPT ![nCreated + 1] = "open"]
         /\ stop_btn' = TRUE
         /\ now' = t
         /\ _start_time' = t
         /\ _data' = <<>>
         /\ _time' = <<>>
         /\ _src' = <<>>
         /\ UNCHANGED start_btn

\* a _start_reading that checks the baud rate only
_start_reading_no_port_check(port, baudText, t) ==
    IF ToInt(baudText) = IntError THEN Rejected("start_bad_baud")
    ELSE StartReader(t)

\* _start_reading, called with the texts of the port combo and the baud edit
_start_reading(port, baudText, t) ==
    IF port = NoPort THEN Rejected("start_no_port")
    ELSE IF ToInt(baudText) = IntError THEN Rejected("start_bad_baud")
    ELSE StartReader(t)

\* a click on the Start button; a disabled button emits no clicked signal
StartClick ==
    /\ ui_pc = "idle"
    /\ nCreated < MaxReaders
    /\ IF start_btn
       THEN \E port \in PortTexts, baudText \in BaudTexts, t \in Clock :
               _start_reading(port, baudText, t)
       ELSE /\ lastOp' = "start_disabled"
            /\ tick' = NoTick
            /\ UNCHANGED <<now, _reader, rpc, nCreated, start_btn, stop_btn,
                           _start_time, _data, _time, _src>>
    /\ UNCHANGED <<ui_pc, joinCtx, _data_queue, drawRequested, dialogs,
                   stopEv, serialOpen, closes, putLog, gotLog, script, device,
                   plotVars, latePuts>>

\* a click on the Stop button
StopClick ==
    /\ ui_pc = "idle"
    /\ stop_btn
    /\ \E g \in {_stop_reading(Gui)} : SetGui(g, "button")
    /\ lastOp' = "stop"
    /\ tick' = NoTick
    /\ UNCHANGED <<now, _data, _time, _start_time, _data_queue, drawRequested,
                   dialogs, nCreated, rpc, serialOpen, closes, putLog, gotLog,
                   script, device, _src, plotVars, latePuts>>

\* a get() that takes the newest item instead of the oldest
GetNewest(q) == q[Len(q)]

\* self._data_queue.get()
Get(q) == Head(q)

\* one pass of timerEvent's loop: take an item; an exception is shown and
\* stops the session, a value is stamped and appended
timer_body(st, t) ==
    LET item == Get(st.q)
        q1 == [st EXCEPT !.q = Tail(@), !.got = Append(@, item)]
    IN  IF item.kind = "error"
        THEN [q1 EXCEPT !.dialogs = @ + 1,
                        !.tick = [errs |-> @.errs + 1, behind |-> Len(putLog),
                                  held |-> IF @.held = None THEN st.g.reader
                                           ELSE @.held],
                        !.g = _stop_reading(@)]
        ELSE [q1 EXCEPT !.time = Append(@, t - _start_time),
                        !.data = Append(@, item.val),
                        !.src = Append(@, item.by)]

\* while not self._data_queue.empty(), as far as the GUI thread gets without
\* waiting
RECURSIVE timer_loop(_, _)
timer_loop(st, t) ==
    IF st.q = <<>> \/ st.g.joining THEN st ELSE timer_loop(timer_body(st, t), t)

\* timerEvent from its loop on: drain, then draw_idle() if there is data
TimerRun(tick0, t) ==
    \E st \in {timer_loop([q |-> _data_queue, got |-> gotLog, data |-> _data,
                           time |-> _time, src |-> _src, dialogs |-> dialogs,
                           tick |-> tick0, g |-> Gui], t)} :
        /\ _data_queue' = st.q
        /\ gotLog' = st.got
        /\ _data' = st.data
        /\ _time' = st.time
        /\ _src' = st.src
        /\ dialogs' = st.dialogs
        /\ tick' = st.tick
        /\ _reader' = st.g.reader
        /\ start_btn' = st.g.start_btn
        /\ stop_btn' = st.g.stop_btn
        /\ stopEv' = st.g.stopEv
        /\ IF st.g.joining
           THEN /\ ui_pc' = "join"
                /\ joinCtx' = "timer"
                /\ UNCHANGED drawRequested
           ELSE /\ ui_pc' = "idle"
                /\ joinCtx' = "none"
                /\ drawRequested' = (drawRequested \/ st.data # <<>>)
        /\ now' = (IF st.data = _data THEN now ELSE t)
        /\ UNCHANGED <<_start_time, nCreated, rpc, serialOpen, closes, putLog,
                       script, device, plotVars, latePuts>>

\* timerEvent is dispatched
timerEvent ==
    /\ ui_pc = "idle"
    /\ \E t \in Clock : TimerRun(NoTick, t)
    /\ lastOp' = "timer"

\* timerEvent goes on after the _stop_reading it called has returned
timer_resume ==
    /\ ui_pc = "drain"
    /\ \E t \in Clock : TimerRun(tick, t)
    /\ UNCHANGED lastOp

\* closeEvent: _stop_reading(), then event.accept()
closeEvent ==
    /\ ui_pc = "idle"
    /\ \E g \in {_stop_reading(Gui)} : SetGui(g, "close")
    /\ lastOp' = "close"
    /\ tick' = NoTick
    /\ UNCHANGED <<now, _data, _time, _start_time, _data_queue, drawRequested,
                   dialogs, nCreated, rpc, serialOpen, closes, putLog, gotLog,
                   script, device, _src, plotVars, latePuts>>

\* the y range _update_plot asks for, in millionths: ymin - padding and
\* ymax + padding with padding 1.0 or 0.05 * (ymax - ymin).  With a nan or
\* an infinity as ymin or ymax both the padding and a limit are not finite,
\* and set_ylim raises ValueError ("Axis limits cannot be NaN or Inf")
\* leaving the range as it was.
set_ylim(old, ymin, ymax) ==
    IF IsFinite(ymin) /\ IsFinite(ymax)
    THEN LET padding == IF FloatEq(ymin, ymax) THEN 1000000
                        ELSE 50 * (ymax.milli - ymin.milli)
         IN  <<1000 * ymin.milli - padding, 1000 * ymax.milli + padding>>
    ELSE old

\* an _update_plot that does not clamp the left end of the x range at 0
_update_plot_unclamped ==
    /\ ui_pc = "idle"
    /\ lastOp' = "plot"
    /\ tick' = NoTick
    /\ IF _data = <<>>
       THEN UNCHANGED plotVars
       ELSE /\ _line' = [x |-> _time, y |-> _data]
            /\ _ax' = [xlim |-> <<_time[Len(_time)] - 30, _time[Len(_time)] + 1>>,
                       ylim |-> set_ylim(_ax.ylim, PyMin(_data), PyMax(_data))]
    /\ UNCHANGED <<now, ui_pc, joinCtx, _reader, _data, _time, _start_time,
                   _data_queue, start_btn, stop_btn, drawRequested, dialogs,
                   nCreated, rpc, stopEv, serialOpen, closes, putLog, gotLog,
                   script, device, _src, latePuts>>

\* _update_plot, the callback of the FuncAnimation, on the GUI thread
_update_plot ==
    /\ ui_pc = "idle"
    /\ lastOp' = "plot"
    /\ tick' = NoTick
    /\ IF _data = <<>>
       THEN UNCHANGED plotVars
       ELSE /\ _line' = [x |-> _time, y |-> _data]
            /\ _ax' = [xlim |-> <<Max2(0, _time[Len(_time)] - 30),
                                  _time[Len(_time)] + 1>>,
                       ylim |-> set_ylim(_ax.ylim, PyMin(_data), PyMax(_data))]
    /\ UNCHANGED <<now, ui_pc, joinCtx, _reader, _data, _time, _start_time,
                   _data_queue, start_btn, stop_btn, drawRequested, dialogs,
                   nCreated, rpc, stopEv, serialOpen, closes, putLog, gotLog,
                   script, device, _src, latePuts>>

ReaderStep(r) ==
    \/ run_open(r)
    \/ run_flush(r)
    \/ run_loop(r)
    \/ run_readline(r)
    \/ run_read_fault(r)

GuiStep ==
    \/ StartClick
    \/ StopClick
    \/ timerEvent
    \/ timer_resume
    \/ join_finished
    \/ join_timeout
    \/ closeEvent

\* latePuts is a history variable of the single-session specifications; the
\* reader's steps leave it alone here
Next ==
    \/ \E r \in Readers : run_open(r) /\ UNCHANGED latePuts
    \/ \E r \in Readers : run_flush(r) /\ UNCHANGED latePuts
    \/ \E r \in Readers : run_loop(r) /\ UNCHANGED latePuts
    \/ \E r \in Readers : run_readline(r) /\ UNCHANGED latePuts
    \/ \E r \in Readers : run_read_fault(r) /\ UNCHANGED latePuts
    \/ GuiStep

Spec == Init /\ [][Next]_vars

\* history: a step of reader r that puts a message with r's stop event set
CountLatePuts(r) ==
    latePuts' = IF stopEv[r] /\ putLog' # putLog
                THEN [latePuts EXCEPT ![r] = @ + 1]
                ELSE latePuts

\* A run with a single start and the window kept open.  The poll timer fires
\* every 33 ms and join returns within its timeout, so the GUI thread's timer
\* and join steps are taken whenever they stay possible.
SessionNext ==
    \/ \E r \in Readers : run_open(r) /\ CountLatePuts(r)
    \/ \E r \in Readers : run_flush(r) /\ CountLatePuts(r)
    \/ \E r \in Readers : run_loop(r) /\ CountLatePuts(r)
    \/ \E r \in Readers : run_readline(r) /\ CountLatePuts(r)
    \/ \E r \in Readers : run_read_fault(r) /\ CountLatePuts(r)
    \/ StartClick /\ nCreated' <= 1
    \/ StopClick
    \/ timerEvent
    \/ timer_resume
    \/ join_finished
    \/ join_timeout

SessionSpec ==
    /\ Init
    /\ [][SessionNext]_vars
    /\ WF_vars(timerEvent)
    /\ WF_vars(timer_resume)
    /\ WF_vars(join_finished \/ join_timeout)

\* A single session in which every call the reader's thread makes returns:
\* the thread is scheduled, and the open, the flush and each readline end
\* with a result, the timeout or an exception.
StopSpec ==
    /\ Init
    /\ [][SessionNext]_vars
    /\ \A r \in Readers : WF_vars(ReaderStep(r) /\ CountLatePuts(r))

\* The redraw alone.  _update_plot reads the buffer and writes only the axes
\* and the line, which no other handler reads, so it is checked from the
\* states a stopped session can leave: a buffer of up to MaxPlotLen samples
\* with elapsed times from PlotTimes and values from PlotValues.  The only
\* other handler that changes what it reads with no reader running is a
\* start, which empties the buffer.
MaxPlotLen == 2

PlotTimes == {0, 5, 45}

PlotValues == {Finite(0), Finite(10000), NaN, Inf(1)}

PlotInit ==
    /\ \E n \in 0..MaxPlotLen :
          \E ts \in [1..n -> PlotTimes], vs \in [1..n -> PlotValues] :
             /\ \A i \in 1..(n - 1) : ts[i] <= ts[i + 1]
             /\ _time = ts
             /\ _data = vs
             /\ _src = [i \in 1..n |-> 1]
             /\ putLog = [i \in 1..n |-> Sample(vs[i], 1)]
             /\ gotLog = [i \in 1..n |-> Sample(vs[i], 1)]
             /\ _start_time = IF n = 0 THEN 0 ELSE 0 - ts[n]
             /\ drawRequested = (n > 0)
    /\ now = 0
    /\ ui_pc = "idle"
    /\ joinCtx = "none"
    /\ _reader = None
    /\ _data_queue = <<>>
    /\ start_btn = TRUE
    /\ stop_btn = FALSE
    /\ _ax = DefaultAxes
    /\ _line = [x |-> <<>>, y |-> <<>>]
    /\ dialogs = 0
    /\ nCreated = 1
    /\ rpc = [r \in Readers |-> IF r = 1 THEN "done" ELSE "new"]
    /\ stopEv = [r \in Readers |-> r = 1]
    /\ serialOpen = [r \in Readers |-> FALSE]
    /\ closes = [r \in Readers |-> IF r = 1 THEN 1 ELSE 0]
    /\ latePuts = [r \in Readers |-> 0]
    /\ script = <<>>
    /\ device = <<>>
    /\ tick = NoTick
    /\ lastOp = "stop"

PlotNext ==
    \/ _update_plot
    \/ StartClick

PlotSpec == PlotInit /\ [][PlotNext]_vars

\* ------------------------------------------------------------------------
\* Properties
\* ------------------------------------------------------------------------
SampleVals(log) ==
    LET s == SelectSeq(log, LAMBDA m : m.kind = "sample")
    IN  [i \in 1..Len(s) |-> s[i].val]

ErrorCount(log) == Len(SelectSeq(log, LAMBDA m : m.kind = "error"))

IsPrefix(a, b) == Len(a) <= Len(b) /\ SubSeq(b, 1, Len(a)) = a

\* C1: in every reachable state at most one SerialReader thread is alive
\* (started and not yet returned from run()).
AtMostOneReaderAlive == Cardinality({r \in Readers : Alive(r)}) <= 1

\* C2: the buffer of a session only ever holds samples put on the channel by
\* that session's own reader, the one created by the latest start.
BufferOnlyFromSessionReader == \A i \in 1..Len(_src) : _src[i] = nCreated

\* what the queue has delivered followed by what it holds is what was put:
\* nothing lost, nothing reordered, nothing delivered twice
Fifo == gotLog \o _data_queue = putLog

\* the buffer holds the first values the reader has put, in the order put
BufferIsPrefix ==
    /\ _data = SampleVals(gotLog)
    /\ IsPrefix(_data, SampleVals(putLog))
    /\ \A i \in 1..Len(putLog) : putLog[i].by = 1

\* the device has sent 1.0, garbage, 2.0 and the controller has drained
Script123Drained ==
    /\ script = <<Line_1_0, Line_garbage, Line_2_0>>
    /\ device = <<>>
    /\ _data_queue = <<>>
    /\ ui_pc = "idle"

\* C3: within one session the channel loses and reorders nothing: the
\* buffer is a prefix of the values the reader has put, each message is
\* taken at most once, every message put is eventually taken under fair
\* poll ticks, and the lines 1.0, garbage, 2.0 end as the buffer [1.0, 2.0].
ChannelFifoNoLoss ==
    /\ [](Fifo /\ BufferIsPrefix)
    /\ [](Script123Drained => _data = <<Finite(1000), Finite(2000)>>)
    /\ (_data_queue # <<>>) ~> (_data_queue = <<>>)

ChannelFifoNoLossWitness ==
    /\ Script123Drained
    /\ _data = <<Finite(1000), Finite(2000)>>
    /\ Len(gotLog) >= 2
    /\ _time = <<0, 1>>

\* C4: a line that does not parse as a finite float puts nothing on the
\* channel and the loop goes on; so every value on the channel and in the
\* buffer is finite.
NonFiniteLineDropped ==
    /\ [][\A r \in Readers :
            (run_readline(r) /\ device' # device /\ ~IsFinite(ToFloat(Head(device))))
                => (putLog' = putLog /\ rpc'[r] = "loop")]_vars
    /\ [](/\ \A i \in 1..Len(putLog) :
                putLog[i].kind = "sample" => IsFinite(putLog[i].val)
          /\ \A i \in 1..Len(_data) : IsFinite(_data[i]))

\* a poll tick that took at least one exception has ended
ErrorTickDone == lastOp = "timer" /\ ui_pc = "idle" /\ tick.errs > 0

\* C5: after a poll tick that drained a Terminal Error the controller
\* holds no reader, the reader it held has been told to stop, one dialog has
\* been shown per error taken, and what was queued behind the error has been
\* taken, once.
ErrorTickStopsSession ==
    /\ dialogs = ErrorCount(gotLog)
    /\ ErrorTickDone =>
          /\ _reader = None
          /\ tick.held # None => stopEv[tick.held]
          /\ Len(gotLog) >= tick.behind
          /\ Fifo

ErrorTickStopsSessionWitness ==
    /\ ErrorTickDone
    /\ tick.held # None
    /\ dialogs = 1
    /\ Len(gotLog) >= 2
    /\ gotLog[Len(gotLog) - 1].kind = "error"
    /\ gotLog[Len(gotLog)].kind = "sample"

\* C6: a start that succeeds leaves both lists of the buffer empty and the
\* time origin at the instant of the start, whatever the state before.
StartResetsBuffer ==
    [][nCreated' # nCreated =>
          /\ _data' = <<>>
          /\ _time' = <<>>
          /\ _start_time' = now']_vars

StartResetsBufferWitness ==
    /\ lastOp = "start"
    /\ nCreated = 2
    /\ _data = <<>>
    /\ _time = <<>>
    /\ SampleVals(gotLog) # <<>>
    /\ ErrorCount(gotLog) > 0
    /\ _start_time = 1

\* C7: a start issued while a session is active creates no reader, keeps the
\* held reader, and leaves the buffer and the time origin alone.
StartWhileActiveIgnored ==
    [][(_reader # None /\ StartClick) =>
          UNCHANGED <<_reader, nCreated, rpc, _data, _time, _start_time>>]_vars

StartWhileActiveIgnoredWitness ==
    /\ lastOp = "start_disabled"
    /\ _reader # None
    /\ Alive(_reader)
    /\ _data # <<>>

\* C8: stop with no session active changes nothing: reader reference,
\* buffer, time origin, channel, and the enabled state of both buttons.
StopWithoutSessionNoOp ==
    /\ [](_reader = None => _stop_reading(Gui) = Gui)
    /\ [][(_reader = None /\ closeEvent) =>
            UNCHANGED <<_reader, _data, _time, _start_time, _data_queue, start_btn,
                        stop_btn, stopEv, rpc>>]_vars

StopWithoutSessionNoOpWitness ==
    /\ ErrorTickDone
    /\ tick.held = None
    /\ _reader = None
    /\ start_btn
    /\ ~stop_btn
    /\ _data # <<>>

\* the baud-rate texts that are not integers
NotIntegerTexts == {<<"9", "6", "k">>, <<"9", ".", "6">>, <<>>}

\* C9: a start with no port selected or a baud text that is not an integer
\* creates no reader and leaves the reader reference, the buffer, the time
\* origin and both buttons as they were.
InvalidConfigRejected ==
    [][(ui_pc = "idle" /\ start_btn /\ UNCHANGED <<ui_pc, _data_queue, stopEv>>) =>
          \A port \in PortTexts, baudText \in BaudTexts, t \in Clock :
             (/\ port = NoPort \/ baudText \in NotIntegerTexts
              /\ _start_reading(port, baudText, t))
             => UNCHANGED <<_reader, nCreated, rpc, _data, _time, _start_time,
                            start_btn, stop_btn>>]_vars

InvalidConfigRejectedWitness ==
    /\ lastOp \in {"start_no_port", "start_bad_baud"}
    /\ _reader = None
    /\ start_btn
    /\ _data # <<>>
    /\ nCreated = 1

\* C10: once the close event has been accepted no reader thread is running.
NoReaderAfterClose == ui_pc = "closed" => \A r \in Readers : ~Alive(r)

\* the messages reader r has put, in order
PutBy(r) == SelectSeq(putLog, LAMBDA m : m.by = r)

\* reader r's thread has ended and its port was never open: its open failed
OpenFailed(r) == rpc[r] = "done" /\ closes[r] = 0

\* C11: a reader whose open fails puts exactly one message, the exception,
\* and its thread ends at once: no second open, no read, no sample.
OpenFailureOneError ==
    /\ [][\A r \in Readers :
            /\ (run_open(r) /\ ~serialOpen'[r]) =>
                  /\ putLog' = Append(putLog, Error(r))
                  /\ rpc'[r] = "done"
            /\ rpc[r] = "done" =>
                  /\ rpc'[r] = "done"
                  /\ PutBy(r)' = PutBy(r)
                  /\ ~run_open(r) /\ ~run_readline(r) /\ ~run_read_fault(r)]_vars
    /\ [](\A r \in Readers : OpenFailed(r) => PutBy(r) = <<Error(r)>>)

OpenFailureOneErrorWitness ==
    \E r \in Readers :
        /\ OpenFailed(r)
        /\ PutBy(r) = <<Error(r)>>
        /\ Len(putLog) >= 3
        /\ putLog[1] = Error(r)

\* C12: a redraw with a non-empty buffer whose latest elapsed time is t sets
\* the x range to [max(0, t - 30), t + 1], so t = 45 gives [15, 46] and
\* t = 5 gives [0, 6]; a redraw with an empty buffer changes neither the
\* axes nor the line.
XAxisWindow ==
    [][_update_plot =>
          IF _data = <<>>
          THEN UNCHANGED <<_ax, _line>>
          ELSE \E t \in {_time[Len(_time)]} :
                  /\ _ax'.xlim[1] = (IF t - 30 > 0 THEN t - 30 ELSE 0)
                  /\ _ax'.xlim[2] = t + 1
                  /\ t = 45 => _ax'.xlim = <<15, 46>>
                  /\ t = 5 => _ax'.xlim = <<0, 6>>]_vars

XAxisWindowWitness ==
    /\ lastOp = "plot"
    /\ _data # <<>>
    /\ _time = <<5, 45>>
    /\ _ax.xlim = <<15, 46>>
    /\ _line.x = _time

\* v is below or equal to every value of the buffer
LeastOf(v, data) ==
    \A i \in 1..Len(data) : FloatLt(v, data[i]) \/ FloatEq(v, data[i])

\* v is above or equal to every value of the buffer
GreatestOf(v, data) ==
    \A i \in 1..Len(data) : FloatLt(data[i], v) \/ FloatEq(v, data[i])

\* C13: a redraw with a non-empty buffer sets the y range to
\* [min - pad, max + pad], min and max taken over all buffered values, pad
\* 1.0 when min = max and 0.05 * (max - min) otherwise (in millionths).
YAxisPadding ==
    [][(_update_plot /\ _data # <<>>) =>
          \E i, j \in 1..Len(_data) :
             /\ LeastOf(_data[i], _data)
             /\ GreatestOf(_data[j], _data)
             /\ IsFinite(_data[i])
             /\ IsFinite(_data[j])
             /\ \E pad \in {IF _data[i] = _data[j] THEN 1000000
                             ELSE 50 * (_data[j].milli - _data[i].milli)} :
                   _ax'.ylim = <<1000 * _data[i].milli - pad,
                                 1000 * _data[j].milli + pad>>]_vars

\* a reader's thread ends in this step
Ends(r) == Alive(r) /\ rpc'[r] \in {"done", "raised"}

\* C14: every device fault in a reader's thread is reported: a thread that
\* ends for any reason but the loop test seeing the stop event (a fault of
\* the open, of the flush or of a read) puts its exception in that step.
AllFaultsReported ==
    [][\A r \in Readers :
          (Ends(r) /\ rpc[r] # "loop") => putLog' = Append(putLog, Error(r))]_vars

\* C15: a reader whose thread has ended has no open port, and closed the
\* port it had opened exactly once.
PortClosedOnce ==
    \A r \in Readers :
        rpc[r] \in {"done", "raised"} =>
            /\ ~serialOpen[r]
            /\ closes[r] <= 1
            /\ OpenFailed(r) \/ closes[r] = 1

\* C16: among the messages of one reader an exception is the last one, so
\* there is at most one and nothing follows it.
ErrorIsLast ==
    \A r \in Readers :
        \A i \in 1..Len(PutBy(r)) :
            PutBy(r)[i].kind = "error" => i = Len(PutBy(r))

ErrorIsLastWitness ==
    \E r \in Readers :
        /\ Len(PutBy(r)) >= 2
        /\ PutBy(r)[Len(PutBy(r))] = Error(r)
        /\ rpc[r] = "done"
        /\ putLog[Len(putLog)].by # r

\* C17: once its stop event is set a reader enters no further readline, and
\* if the calls it makes return its thread ends.
CooperativeStop ==
    /\ [][\A r \in Readers :
            (stopEv[r] /\ rpc[r] # "read") => rpc'[r] # "read"]_vars
    /\ \A r \in Readers : (stopEv[r] /\ Alive(r)) ~> ~Alive(r)

CooperativeStopWitness ==
    /\ stopEv[1]
    /\ rpc[1] = "done"
    /\ closes[1] = 1
    /\ ErrorCount(putLog) = 0
    /\ latePuts[1] = 0
    /\ putLog # <<>>
    /\ device # <<>>

\* C18: a reader puts at most one message with its stop event set.
AtMostOneLatePut == \A r \in Readers : latePuts[r] <= 1

AtMostOneLatePutWitness ==
    /\ latePuts[1] = 1
    /\ rpc[1] = "done"
    /\ putLog[Len(putLog)].kind = "sample"
    /\ device # <<>>

\* C19: when a poll tick takes an exception and stops the reader the
\* controller holds, that reader is the one that put the exception.
ErrorStopsItsOwnReader ==
    [][(ui_pc # "join" /\ ui_pc' = "join" /\ joinCtx' = "timer") =>
          gotLog'[Len(gotLog')].by = _reader]_vars

\* C20: between two handlers of the GUI thread the Start button is enabled
\* exactly when no reader is held and the Stop button exactly when one is.
ButtonsMatchReader ==
    ui_pc \in {"idle", "closed"} =>
        /\ start_btn <=> _reader = None
        /\ stop_btn <=> _reader # None

ButtonsMatchReaderWitness ==
    /\ ui_pc = "idle"
    /\ lastOp = "start"
    /\ nCreated = 2
    /\ _reader = 2
    /\ ~start_btn
    /\ stop_btn
    /\ dialogs > 0
    /\ stopEv[1]

====
